---- MODULE Spec2Model ----
(***************************************************************************)
(* Model of split_mbtiles.py: an MBTiles archive is split into one output  *)
(* archive per group of zoom levels.  The archive files are modelled as    *)
(* SQLite databases (tables of rows), the database connections as Python's *)
(* sqlite3 module drives them (implicit transactions before DML, explicit  *)
(* BEGIN / commit), and main() as a state machine over its phases.         *)
(***************************************************************************)
EXTENDS Integers, Sequences, FiniteSets, TLC

VARIABLES
    srcFile,      \* the input archive on disk: [exists, db]
    fs,           \* the output directory: path -> [exists, db]
    limit_bytes,  \* main: limit_bytes
    overhead,     \* main: args.overhead, a ratio <<numerator, denominator>>
    pc,           \* the phase main() is in
    schema,       \* main: schema ("tiles", "map_images", or "" before detection)
    zooms,        \* main: zooms
    zoom_bytes,   \* main: zoom_bytes, a dict zoom -> bytes
    warnings,     \* zoom levels the pre-group advisory loop has printed
    groups,       \* main: groups
    idx,          \* main: i, the 1-based index of the next group to write
    produced,     \* main: produced
    calls,        \* log of the splitter calls made so far
    error,        \* the exception that ended the run ("" while none)
    handles,      \* the database connections open: <<0, "src">> is main's,
                  \* <<i, "src">> and <<i, "dst">> those of the i-th splitter call
    interface,        \* app.py: interface (None, or the devPath of the SerialInterface)
    current_dev_path, \* app.py: current_dev_path
    lora_connected,   \* app.py: lora_connected
    emitted,          \* the 'online' values of the lora_status events of mesh_loop
    mesh_exc,         \* what the last iteration of mesh_loop caught ("" if nothing)
    mesh_pc,          \* where mesh_loop is waiting within its pass
    target_port,      \* mesh_loop: target_port, the result of the last scan
    sent_on_connect,  \* the 'online' values handle_connect has sent to new clients
    devices           \* the serial device paths that exist under /dev

splitVars == <<srcFile, fs, limit_bytes, overhead, pc, schema, zooms,
               zoom_bytes, warnings, groups, idx, produced, calls, error,
               handles>>

meshVars == <<interface, current_dev_path, lora_connected, emitted, mesh_exc,
              mesh_pc, target_port, sent_on_connect, devices>>

vars == <<srcFile, fs, limit_bytes, overhead, pc, schema, zooms, zoom_bytes,
          warnings, groups, idx, produced, calls, error, handles,
          interface, current_dev_path, lora_connected, emitted, mesh_exc,
          mesh_pc, target_port, sent_on_connect, devices>>

\* Python's None, for interface, current_dev_path and a scan that found nothing.
None == "None"

\* app.py as imported and mesh_loop not started (lines 18-20): the state of the
\* bridge while split_mbtiles.py runs.
MeshIdle ==
    /\ interface = None
    /\ current_dev_path = None
    /\ lora_connected = FALSE
    /\ emitted = <<>>
    /\ mesh_exc = ""
    /\ mesh_pc = "not started"
    /\ target_port = None
    /\ sent_on_connect = {}
    /\ devices = {}

----------------------------------------------------------------------------
(* Bounds of the model.                                                    *)

MaxZoom  == 2   \* zoom levels of the archives are 0..MaxZoom
MaxRows  == 3   \* at most MaxRows rows in the relations of the source archive
MaxEst   == 4   \* the estimate tables of SpecGrouper hold values up to MaxEst
MaxLimit == 4   \* SpecGrouper draws limit_bytes from 1..MaxLimit

ZoomLevels == 0 .. MaxZoom
TileCols   == {0, 1}
Coords     == {<<z, c, 0>> : z \in ZoomLevels, c \in TileCols}
TileIds    == {"a", "b"}

\* A blob is NULL or a byte string.
NullBlob   == [null |-> TRUE, bytes |-> <<>>]
Bytes(s)   == [null |-> FALSE, bytes |-> s]
Blobs      == {NullBlob, Bytes(<<7>>), Bytes(<<7, 8, 9>>)}

\* Overhead factors, all exactly representable as floats.
Overheads  == {<<1, 1>>, <<5, 4>>, <<3, 2>>}
EstValues  == {-2} \cup (0 .. MaxEst)

----------------------------------------------------------------------------
(* Small helpers.                                                          *)

RECURSIVE SetToSortedSeq(_)
SetToSortedSeq(S) ==
    IF S = {} THEN <<>>
    ELSE LET m == CHOOSE x \in S : \A y \in S : x <= y
         IN <<m>> \o SetToSortedSeq(S \ {m})

Range(s) == {s[k] : k \in 1 .. Len(s)}

MinOf(S) == CHOOSE x \in S : \A y \in S : x <= y
MaxOf(S) == CHOOSE x \in S : \A y \in S : x >= y

RECURSIVE Flatten(_)
Flatten(ss) == IF ss = <<>> THEN <<>> ELSE Head(ss) \o Flatten(Tail(ss))

\* str(n) for the small non-negative integers zoom levels are.
Digits == <<"0", "1", "2", "3", "4", "5", "6", "7", "8", "9">>
Str(n) == Digits[n + 1]

\* int(x) of a float x = a / d: truncation toward zero.
TruncDiv(a, d) == IF a >= 0 THEN a \div d ELSE -((-a) \div d)

\* dict.get(k, default)
DictGet(d, k, default) == IF k \in DOMAIN d THEN d[k] ELSE default

----------------------------------------------------------------------------
(* group_zooms_by_limit                                                    *)

\* est = int(zoom_bytes.get(z, 0) * overhead_factor)
AdjustedEstimate(zb, z, ov) == TruncDiv(DictGet(zb, z, 0) * ov[1], ov[2])

\* GroupStep with groups.append(current) forgotten when a group is closed.
GroupStep_NoAppend(st, z, zb, lim, ov) ==
    LET est == AdjustedEstimate(zb, z, ov) IN
    IF st.current = <<>>
    THEN [st EXCEPT !.current = <<z>>, !.current_est = est]
    ELSE IF st.current_est + est <= lim
         THEN [st EXCEPT !.current = Append(st.current, z),
                         !.current_est = st.current_est + est]
         ELSE [st EXCEPT !.current = <<z>>, !.current_est = est]

\* GroupStep with "current_est += est" written as "current_est = est".
GroupStep_NoAccumulate(st, z, zb, lim, ov) ==
    LET est == AdjustedEstimate(zb, z, ov) IN
    IF st.current = <<>>
    THEN [st EXCEPT !.current = <<z>>, !.current_est = est]
    ELSE IF st.current_est + est <= lim
         THEN [st EXCEPT !.current = Append(st.current, z),
                         !.current_est = est]
         ELSE [groups |-> Append(st.groups, st.current),
               current |-> <<z>>, current_est |-> est]

\* GroupStep testing the room left before z instead of the total with z.
GroupStep_TestBefore(st, z, zb, lim, ov) ==
    LET est == AdjustedEstimate(zb, z, ov) IN
    IF st.current = <<>>
    THEN [st EXCEPT !.current = <<z>>, !.current_est = est]
    ELSE IF st.current_est <= lim
         THEN [st EXCEPT !.current = Append(st.current, z),
                         !.current_est = st.current_est + est]
         ELSE [groups |-> Append(st.groups, st.current),
               current |-> <<z>>, current_est |-> est]

\* GroupStep with the test "current_est + est < limit_bytes".
GroupStep_StrictLess(st, z, zb, lim, ov) ==
    LET est == AdjustedEstimate(zb, z, ov) IN
    IF st.current = <<>>
    THEN [st EXCEPT !.current = <<z>>, !.current_est = est]
    ELSE IF st.current_est + est < lim
         THEN [st EXCEPT !.current = Append(st.current, z),
                         !.current_est = st.current_est + est]
         ELSE [groups |-> Append(st.groups, st.current),
               current |-> <<z>>, current_est |-> est]

\* One iteration of the for loop over a state [groups, current, current_est].
GroupStep(st, z, zb, lim, ov) ==
    LET est == AdjustedEstimate(zb, z, ov) IN
    IF st.current = <<>>
    THEN [st EXCEPT !.current = <<z>>, !.current_est = est]
    ELSE IF st.current_est + est <= lim
         THEN [st EXCEPT !.current = Append(st.current, z),
                         !.current_est = st.current_est + est]
         ELSE [groups |-> Append(st.groups, st.current),
               current |-> <<z>>, current_est |-> est]

RECURSIVE GroupLoop(_, _, _, _, _)
GroupLoop(st, zs, zb, lim, ov) ==
    IF zs = <<>> THEN st
    ELSE GroupLoop(GroupStep(st, Head(zs), zb, lim, ov), Tail(zs), zb, lim, ov)

\* group_zooms_by_limit without the final groups.append(current).
group_zooms_by_limit_NoFinalAppend(zs, zb, lim, ov) ==
    LET st == GroupLoop([groups |-> <<>>, current |-> <<>>, current_est |-> 0],
                        zs, zb, lim, ov)
    IN st.groups

\* group_zooms_by_limit without the final "if current" test.
group_zooms_by_limit_AlwaysAppend(zs, zb, lim, ov) ==
    LET st == GroupLoop([groups |-> <<>>, current |-> <<>>, current_est |-> 0],
                        zs, zb, lim, ov)
    IN Append(st.groups, st.current)

group_zooms_by_limit(zs, zb, lim, ov) ==
    LET st == GroupLoop([groups |-> <<>>, current |-> <<>>, current_est |-> 0],
                        zs, zb, lim, ov)
    IN IF st.current # <<>> THEN Append(st.groups, st.current) ELSE st.groups

----------------------------------------------------------------------------
(* SQLite databases and Python sqlite3 connections.                        *)
(*                                                                         *)
(* A database is a record of four relations, each present or not.          *)
(*   metadata : sequence of <<name, value>> (a bag; rowid order)           *)
(*   tiles    : set of <<zoom_level, tile_column, tile_row, tile_data>>    *)
(*   map      : set of <<zoom_level, tile_column, tile_row, tile_id>>      *)
(*   images   : set of <<tile_id, tile_data>>                              *)

NoSeqTable == [has |-> FALSE, rows |-> <<>>]
NoSetTable == [has |-> FALSE, rows |-> {}]
EmptyDb    == [metadata |-> NoSeqTable, tiles |-> NoSetTable,
               map |-> NoSetTable, images |-> NoSetTable]
NoFile     == [exists |-> FALSE, db |-> EmptyDb]
FileOf(db) == [exists |-> TRUE, db |-> db]

\* The exceptions sqlite3 raises, by their text.
ErrCantOpen    == "OperationalError: unable to open database file"
ErrNestedBegin == "OperationalError: cannot start a transaction within a transaction"
ErrUnique      == "IntegrityError: UNIQUE constraint failed"
ErrVacuumInTx  == "OperationalError: cannot VACUUM from within a transaction"

\* table_exists(conn, name)
table_exists(db, name) == db[name].has

\* sqlite3.connect(path): opens the database, creating an empty one when
\* the file does not exist.  cur is what the connection sees, committed is
\* what the file holds, intx is Connection.in_transaction, exc the
\* exception a statement raised ("" while none).
connect_rw(file) ==
    LET db == IF file.exists THEN file.db ELSE EmptyDb
    IN [cur |-> db, committed |-> db, intx |-> FALSE, exc |-> ""]

\* A DDL statement CREATE TABLE IF NOT EXISTS: sqlite3 opens no implicit
\* transaction for it, so outside a transaction it is committed at once.
ExecCreateTable(c, name) ==
    IF c.exc # "" \/ c.cur[name].has THEN c
    ELSE LET db == [c.cur EXCEPT ![name].has = TRUE]
         IN IF c.intx THEN [c EXCEPT !.cur = db]
                      ELSE [c EXCEPT !.cur = db, !.committed = db]

\* A DML statement (INSERT / DELETE) leaving table name with rows: sqlite3
\* implicitly opens a transaction before it when none is open.
ExecDML(c, name, rows) ==
    IF c.exc # "" THEN c
    ELSE [c EXCEPT !.cur = [c.cur EXCEPT ![name].rows = rows], !.intx = TRUE]

\* dst.execute("BEGIN"): SQLite refuses a BEGIN inside a transaction.
ExecBegin(c) ==
    IF c.exc # "" THEN c
    ELSE IF c.intx THEN [c EXCEPT !.exc = ErrNestedBegin]
    ELSE [c EXCEPT !.intx = TRUE]

\* dst.commit()
Commit(c) ==
    IF c.exc # "" THEN c
    ELSE [c EXCEPT !.committed = c.cur, !.intx = FALSE]

\* What the file holds once the connection is gone: uncommitted changes
\* are dropped.
Close(c) == FileOf(c.committed)

----------------------------------------------------------------------------
(* The helpers of the writers.                                             *)

\* copy_metadata(src, dst)
copy_metadata(src, c) ==
    LET c1 == ExecCreateTable(c, "metadata")
        c2 == ExecDML(c1, "metadata", <<>>)
    IN IF table_exists(src, "metadata")
       THEN ExecDML(c2, "metadata", c2.cur.metadata.rows \o src.metadata.rows)
       ELSE c2

\* upsert_metadata(dst, name, value)
upsert_metadata(c, name, value) ==
    LET kept == SelectSeq(c.cur.metadata.rows, LAMBDA r : r[1] # name)
        c1   == ExecDML(c, "metadata", kept)
    IN ExecDML(c1, "metadata", Append(c1.cur.metadata.rows, <<name, value>>))

\* create_schema_tiles(dst)
create_schema_tiles(c) == ExecCreateTable(c, "tiles")

\* create_schema_map_images(dst)
create_schema_map_images(c) ==
    ExecCreateTable(ExecCreateTable(c, "map"), "images")

\* INSERT INTO t(...) SELECT ... FROM t WHERE zoom_level IN (zs), run on the
\* destination connection: the SELECT reads the destination's own relation
\* t (no other database is attached), and every selected row collides with
\* itself on the unique index over (zoom_level, tile_column, tile_row).
InsertSelectByZoom(c, name, zs) ==
    LET selected == {r \in c.cur[name].rows : r[1] \in Range(zs)}
    IN IF c.exc # "" THEN c
       ELSE IF selected # {} THEN [c EXCEPT !.exc = ErrUnique]
       ELSE ExecDML(c, name, c.cur[name].rows \cup selected)

\* INSERT OR IGNORE INTO images SELECT i.* FROM images i
\*   JOIN (SELECT DISTINCT tile_id FROM map) m ON i.tile_id = m.tile_id,
\* run on the destination connection: rows whose tile_id is already a key
\* of images are ignored.
InsertReferencedImages(c) ==
    LET referenced == {m[4] : m \in c.cur.map.rows}
        selected   == {r \in c.cur.images.rows : r[1] \in referenced}
        keys       == {r[1] : r \in c.cur.images.rows}
        fresh      == {r \in selected : r[1] \notin keys}
    IN ExecDML(c, "images", c.cur.images.rows \cup fresh)

\* Payload bytes of a relation's blobs (LENGTH of NULL counts nothing).
RECURSIVE BlobBytes(_, _)
BlobBytes(rows, col) ==
    IF rows = {} THEN 0
    ELSE LET r == CHOOSE r \in rows : TRUE
         IN (IF r[col].null THEN 0 ELSE Len(r[col].bytes))
            + BlobBytes(rows \ {r}, col)

\* The size of a database file after VACUUM is a whole number of pages of
\* PageSize bytes: one page for the header and the schema, and the pages of
\* the b-trees of each relation.  metadata is one b-tree; tiles and map
\* carry a unique index and images its primary key index, two b-trees each.
\* Every b-tree of an archive within the bounds of this model (a few rows
\* with blobs of a few bytes) fits its root page.
PageSize == 4096

BTreePages(name) == IF name = "metadata" THEN 1 ELSE 2

FilePages(db) ==
    1 + (IF db.metadata.has THEN BTreePages("metadata") ELSE 0)
      + (IF db.tiles.has THEN BTreePages("tiles") ELSE 0)
      + (IF db.map.has THEN BTreePages("map") ELSE 0)
      + (IF db.images.has THEN BTreePages("images") ELSE 0)

\* vacuum_and_size(path, conn): VACUUM, commit, os.path.getsize(path).
vacuum_and_size(c) ==
    LET c1 == IF c.exc = "" /\ c.intx
              THEN [c EXCEPT !.exc = ErrVacuumInTx] ELSE c
        c2 == Commit(c1)
    IN [conn |-> c2, size |-> PageSize * FilePages(c2.committed)]

\* min(zooms), max(zooms)
ZMin(zs) == MinOf(Range(zs))
ZMax(zs) == MaxOf(Range(zs))

----------------------------------------------------------------------------
(* The writers.  Each returns [exc, file, size]: the exception raised ("" *)
(* on a normal return), the output file left on disk, and the size         *)
(* returned.                                                               *)

\* dst.close() and src.close() are the last statements before the return:
\* a call that raises leaves both connections open.
WriterResult(vs) ==
    [exc |-> vs.conn.exc, file |-> Close(vs.conn), size |-> vs.size,
     open |-> IF vs.conn.exc # "" THEN {"src", "dst"} ELSE {}]

\* split_tiles_schema(src_path, out_path, zooms, limit_bytes)
split_tiles_schema(srcF, dstFile, zs) ==
    IF ~srcF.exists
    THEN [exc |-> ErrCantOpen, file |-> dstFile, size |-> 0, open |-> {}] ELSE
    LET src == srcF.db
        c0 == connect_rw(dstFile)
        c1 == copy_metadata(src, c0)
        c2 == create_schema_tiles(c1)
        c3 == upsert_metadata(c2, "minzoom", Str(ZMin(zs)))
        c4 == upsert_metadata(c3, "maxzoom", Str(ZMax(zs)))
        c5 == ExecBegin(c4)
        c6 == InsertSelectByZoom(c5, "tiles", zs)
        c7 == Commit(c6)
    IN WriterResult(vacuum_and_size(c7))

\* split_map_images_schema(src_path, out_path, zooms, limit_bytes)
split_map_images_schema(srcF, dstFile, zs) ==
    IF ~srcF.exists
    THEN [exc |-> ErrCantOpen, file |-> dstFile, size |-> 0, open |-> {}] ELSE
    LET src == srcF.db
        c0 == connect_rw(dstFile)
        c1 == copy_metadata(src, c0)
        c2 == create_schema_map_images(c1)
        c3 == upsert_metadata(c2, "minzoom", Str(ZMin(zs)))
        c4 == upsert_metadata(c3, "maxzoom", Str(ZMax(zs)))
        c5 == ExecBegin(c4)
        c6 == InsertSelectByZoom(c5, "map", zs)
        c7 == Commit(c6)
        c8 == ExecBegin(c7)
        c9 == InsertReferencedImages(c8)
        c10 == Commit(c9)
    IN WriterResult(vacuum_and_size(c10))

----------------------------------------------------------------------------
(* The reading side: schema detection, zoom enumeration, size estimation.  *)

ErrUnsupported == "RuntimeError: Unsupported MBTiles schema. Expected 'tiles' table or ('map' + 'images')."
ErrNoZooms     == "RuntimeError: No zoom levels found in mbtiles."

\* get_mbtiles_schema_type(conn); "" stands for the RuntimeError raised.
get_mbtiles_schema_type(db) ==
    IF table_exists(db, "tiles") THEN "tiles"
    ELSE IF table_exists(db, "map") /\ table_exists(db, "images") THEN "map_images"
    ELSE ""

\* get_zoom_levels(conn, schema)
get_zoom_levels(db, sch) ==
    IF sch = "tiles"
    THEN SetToSortedSeq({r[1] : r \in db.tiles.rows})
    ELSE SetToSortedSeq({r[1] : r \in db.map.rows})

\* The rows of map m JOIN images i ON m.tile_id = i.tile_id, as
\* <<zoom_level, tile_column, tile_row, tile_data>>: one per coordinate row
\* that has an image, so a shared blob counts once per coordinate row.
JoinedRows(db) ==
    {<<p[1][1], p[1][2], p[1][3], p[2][2]>> :
        p \in {q \in db.map.rows \X db.images.rows : q[1][4] = q[2][1]}}

\* estimate_zoom_sizes_bytes(conn, schema): GROUP BY zoom_level of
\* SUM(LENGTH(tile_data)), a NULL sum read as 0.
estimate_zoom_sizes_bytes(db, sch) ==
    LET rows == IF sch = "tiles" THEN db.tiles.rows ELSE JoinedRows(db)
        keys == {r[1] : r \in rows}
    IN [z \in keys |-> BlobBytes({r \in rows : r[1] = z}, 4)]

----------------------------------------------------------------------------
(* main()                                                                  *)

Prefix == "in"

\* The output file name built without the zoom range of the group.
OutPath_NoZooms(zmin, zmax) == <<Prefix, ".mbtiles">>

\* outdir / f"{prefix}_z{zmin}-{zmax}.mbtiles", as the pieces of the name.
OutPath(zmin, zmax) == <<Prefix, "_z", Str(zmin), "-", Str(zmax), ".mbtiles">>

AllPaths == {OutPath(p[1], p[2]) :
                p \in {q \in ZoomLevels \X ZoomLevels : q[1] <= q[2]}}

\* The unlink of main left out: a file at the output path stays.
UnlinkIfExists_Never(file) == file

\* if out_path.exists(): out_path.unlink()
UnlinkIfExists(file) == IF file.exists THEN NoFile ELSE file

\* splitter = split_tiles_schema if schema == "tiles" else split_map_images_schema
Splitter(sch, srcF, dstFile, zs) ==
    IF sch = "tiles" THEN split_tiles_schema(srcF, dstFile, zs)
    ELSE split_map_images_schema(srcF, dstFile, zs)

\* src = connect_ro(in_path); schema = get_mbtiles_schema_type(src)
DetectSchema ==
    /\ pc = "Init"
    /\ IF ~srcFile.exists
       THEN pc' = "Failed" /\ error' = ErrCantOpen /\ UNCHANGED <<schema, handles>>
       ELSE LET s == get_mbtiles_schema_type(srcFile.db)
            IN /\ handles' = handles \cup {<<0, "src">>}
               /\ IF s = ""
                  THEN pc' = "Failed" /\ error' = ErrUnsupported /\ UNCHANGED schema
                  ELSE pc' = "SchemaDetected" /\ schema' = s /\ UNCHANGED error
    /\ UNCHANGED <<srcFile, fs, limit_bytes, overhead, zooms, zoom_bytes,
                   warnings, groups, idx, produced, calls>>
    /\ UNCHANGED meshVars

\* EstimateSizes without the "if not zooms: raise" of main.
EstimateSizes_NoEmptyCheck ==
    /\ pc = "SchemaDetected"
    /\ zooms' = get_zoom_levels(srcFile.db, schema)
    /\ pc' = "SizesEstimated"
    /\ zoom_bytes' = estimate_zoom_sizes_bytes(srcFile.db, schema)
    /\ handles' = handles \ {<<0, "src">>}
    /\ UNCHANGED <<srcFile, fs, limit_bytes, overhead, schema,
                   warnings, groups, idx, produced, calls, error>>
    /\ UNCHANGED meshVars

\* zooms = get_zoom_levels(src, schema); if not zooms: raise;
\* zoom_bytes = estimate_zoom_sizes_bytes(src, schema); src.close()
EstimateSizes ==
    /\ pc = "SchemaDetected"
    /\ zooms' = get_zoom_levels(srcFile.db, schema)
    /\ IF zooms' = <<>>
       THEN pc' = "Failed" /\ error' = ErrNoZooms /\ UNCHANGED <<zoom_bytes, handles>>
       ELSE /\ pc' = "SizesEstimated"
            /\ zoom_bytes' = estimate_zoom_sizes_bytes(srcFile.db, schema)
            /\ handles' = handles \ {<<0, "src">>}
            /\ UNCHANGED error
    /\ UNCHANGED <<srcFile, fs, limit_bytes, overhead, schema,
                   warnings, groups, idx, produced, calls>>
    /\ UNCHANGED meshVars

\* Advisory with an oversized zoom level treated as fatal.
Advisory_Abort ==
    /\ pc = "SizesEstimated"
    /\ warnings' = {z \in Range(zooms) :
                       AdjustedEstimate(zoom_bytes, z, overhead) > limit_bytes}
    /\ pc' = IF warnings' = {} THEN "Warned" ELSE "Failed"
    /\ UNCHANGED <<srcFile, fs, limit_bytes, overhead, schema, zooms,
                   zoom_bytes, groups, idx, produced, calls, error, handles>>
    /\ UNCHANGED meshVars

\* The loop "Warn if any single zoom is likely over limit".
Advisory ==
    /\ pc = "SizesEstimated"
    /\ warnings' = {z \in Range(zooms) :
                       AdjustedEstimate(zoom_bytes, z, overhead) > limit_bytes}
    /\ pc' = "Warned"
    /\ UNCHANGED <<srcFile, fs, limit_bytes, overhead, schema, zooms,
                   zoom_bytes, groups, idx, produced, calls, error, handles>>
    /\ UNCHANGED meshVars

\* groups = group_zooms_by_limit(zooms, zoom_bytes, limit_bytes, args.overhead)
Group ==
    /\ pc = "Warned"
    /\ groups' = group_zooms_by_limit(zooms, zoom_bytes, limit_bytes, overhead)
    /\ pc' = "Grouped"
    /\ UNCHANGED <<srcFile, fs, limit_bytes, overhead, schema, zooms,
                   zoom_bytes, warnings, idx, produced, calls, error, handles>>
    /\ UNCHANGED meshVars

\* WriteGroup with the splitter's exception caught and the loop continued.
WriteGroup_Continue ==
    /\ pc \in {"Grouped", "WritingGroup"}
    /\ idx <= Len(groups)
    /\ LET g        == groups[idx]
           zmin     == ZMin(g)
           zmax     == ZMax(g)
           out_path == OutPath(zmin, zmax)
           dst      == UnlinkIfExists(fs[out_path])
           res      == Splitter(schema, srcFile, dst, g)
       IN /\ fs' = [fs EXCEPT ![out_path] = res.file]
          /\ calls' = Append(calls, [index |-> idx, zooms |-> g, path |-> out_path,
                                     dst |-> dst, exc |-> res.exc, file |-> res.file])
          /\ handles' = handles \cup {<<idx, h>> : h \in res.open}
          /\ IF res.exc # ""
             THEN /\ pc' = IF idx = Len(groups) THEN "Failed" ELSE "WritingGroup"
                  /\ error' = res.exc
                  /\ idx' = idx + 1
                  /\ UNCHANGED produced
             ELSE /\ produced' = Append(produced, <<out_path, res.size, zmin, zmax>>)
                  /\ idx' = idx + 1
                  /\ pc' = IF idx = Len(groups) THEN "Done" ELSE "WritingGroup"
                  /\ UNCHANGED error
    /\ UNCHANGED <<srcFile, limit_bytes, overhead, schema, zooms, zoom_bytes,
                   warnings, groups>>
    /\ UNCHANGED meshVars

\* One iteration of "for i, g in enumerate(groups, start=1)": delete a file
\* at the output path, call the splitter, record the result.  An exception
\* of the splitter is not caught: it ends main().
WriteGroup ==
    /\ pc \in {"Grouped", "WritingGroup"}
    /\ idx <= Len(groups)
    /\ LET g        == groups[idx]
           zmin     == ZMin(g)
           zmax     == ZMax(g)
           out_path == OutPath(zmin, zmax)
           dst      == UnlinkIfExists(fs[out_path])
           res      == Splitter(schema, srcFile, dst, g)
       IN /\ fs' = [fs EXCEPT ![out_path] = res.file]
          /\ calls' = Append(calls, [index |-> idx, zooms |-> g, path |-> out_path,
                                     dst |-> dst, exc |-> res.exc, file |-> res.file])
          /\ handles' = handles \cup {<<idx, h>> : h \in res.open}
          /\ IF res.exc # ""
             THEN /\ pc' = "Failed"
                  /\ error' = res.exc
                  /\ UNCHANGED <<idx, produced>>
             ELSE /\ produced' = Append(produced, <<out_path, res.size, zmin, zmax>>)
                  /\ idx' = idx + 1
                  /\ pc' = IF idx = Len(groups) THEN "Done" ELSE "WritingGroup"
                  /\ UNCHANGED error
    /\ UNCHANGED <<srcFile, limit_bytes, overhead, schema, zooms, zoom_bytes,
                   warnings, groups>>
    /\ UNCHANGED meshVars

----------------------------------------------------------------------------
(* The inputs: source archives, output directories, limits.                *)

TableOf(rows) == [has |-> TRUE, rows |-> rows]

\* Relations of n rows keyed by coordinate (the unique index).
CoordRows(Vals, n) ==
    {{<<k[1], k[2], k[3], f[k]>> : k \in DOMAIN f} :
        f \in UNION {[S -> Vals] :
                 S \in {T \in SUBSET Coords : Cardinality(T) = n}}}

\* Image relations of n rows keyed by tile_id (the primary key).
ImageRows(n) ==
    {{<<t, f[t]>> : t \in DOMAIN f} :
        f \in UNION {[D -> Blobs] :
                 D \in {T \in SUBSET TileIds : Cardinality(T) = n}}}

\* Metadata relations of at most n rows, or no metadata relation.
MetaEntries == {<<"name", "osm">>, <<"minzoom", "9">>, <<"maxzoom", "9">>}
MetaTables(n) ==
    {NoSeqTable} \cup
    {TableOf(s) : s \in UNION {[1 .. k -> MetaEntries] : k \in 0 .. n}}

\* The source archives: at most MaxRows rows over all their relations.
TilesDbs ==
    UNION {{[EmptyDb EXCEPT !.metadata = m, !.tiles = TableOf(t)] :
               m \in MetaTables(MaxRows - n), t \in CoordRows(Blobs, n)} :
           n \in 0 .. MaxRows}
MapImagesDbs ==
    UNION {{[EmptyDb EXCEPT !.metadata = m, !.map = TableOf(r),
                            !.images = TableOf(i)] :
               m \in MetaTables(MaxRows - nj[1] - nj[2]),
               r \in CoordRows(TileIds, nj[1]), i \in ImageRows(nj[2])} :
           nj \in {q \in (0 .. MaxRows) \X (0 .. MaxRows) : q[1] + q[2] <= MaxRows}}
OtherDbs ==
    {[EmptyDb EXCEPT !.metadata = m] : m \in MetaTables(1)} \cup
    {[EmptyDb EXCEPT !.map = TableOf({})]}

SourceFiles == {NoFile} \cup
               {FileOf(db) : db \in TilesDbs \cup MapImagesDbs \cup OtherDbs}

\* A file left in the output directory by an earlier run.
StaleDb == [EmptyDb EXCEPT
               !.metadata = TableOf(<<<<"name", "old">>, <<"minzoom", "8">>>>),
               !.tiles = TableOf({<<0, 0, 0, Bytes(<<1, 2>>)>>}),
               !.images = TableOf({<<"a", Bytes(<<1, 2>>)>>})]

OutDirs == {[p \in AllPaths |-> NoFile], [p \in AllPaths |-> FileOf(StaleDb)]}

MainLimits    == {2, 5}
MainOverheads == {<<5, 4>>}

Init ==
    /\ srcFile \in SourceFiles
    /\ fs \in OutDirs
    /\ limit_bytes \in MainLimits
    /\ overhead \in MainOverheads
    /\ pc = "Init"
    /\ schema = ""
    /\ zooms = <<>>
    /\ zoom_bytes = <<>>
    /\ warnings = {}
    /\ groups = <<>>
    /\ idx = 1
    /\ produced = <<>>
    /\ calls = <<>>
    /\ error = ""
    /\ handles = {}
    /\ MeshIdle

Next == DetectSchema \/ EstimateSizes \/ Advisory \/ Group \/ WriteGroup

Spec == Init /\ [][Next]_vars

(* The grouper on its own: main() placed after size estimation with an     *)
(* arbitrary estimate table, limit and overhead factor.                    *)

ZoomSeqs  == {SetToSortedSeq(S) : S \in SUBSET ZoomLevels}
EstTables == UNION {[D -> EstValues] : D \in SUBSET ZoomLevels}

InitGrouper ==
    /\ srcFile = NoFile
    /\ fs = [p \in AllPaths |-> NoFile]
    /\ limit_bytes \in 1 .. MaxLimit
    /\ overhead \in Overheads
    /\ pc = "SizesEstimated"
    /\ schema = "tiles"
    /\ zooms \in ZoomSeqs
    /\ zoom_bytes \in EstTables
    /\ warnings = {}
    /\ groups = <<>>
    /\ idx = 1
    /\ produced = <<>>
    /\ calls = <<>>
    /\ error = ""
    /\ handles = {}
    /\ MeshIdle

NextGrouper == Advisory \/ Group

SpecGrouper == InitGrouper /\ [][NextGrouper]_vars

----------------------------------------------------------------------------
(* The advisory loop and the grouper on four zoom levels with estimates of *)
(* very different magnitudes: every assignment of the estimates 200, 1000, *)
(* 2000 and 50000000 to the zoom levels 0..3, under a limit of 10000000    *)
(* bytes and the default --overhead 1.25.                                  *)

ScenarioZooms     == <<0, 1, 2, 3>>
ScenarioEstimates == (0 :> 1000) @@ (1 :> 2000) @@ (2 :> 50000000) @@ (3 :> 200)
ScenarioTables    ==
    [Range(ScenarioZooms) ->
        {ScenarioEstimates[z] : z \in DOMAIN ScenarioEstimates}]

InitScenario ==
    /\ srcFile = NoFile
    /\ fs = [p \in AllPaths |-> NoFile]
    /\ limit_bytes = 10000000
    /\ overhead = <<5, 4>>
    /\ pc = "SizesEstimated"
    /\ schema = "tiles"
    /\ zooms = ScenarioZooms
    /\ zoom_bytes \in ScenarioTables
    /\ warnings = {}
    /\ groups = <<>>
    /\ idx = 1
    /\ produced = <<>>
    /\ calls = <<>>
    /\ error = ""
    /\ handles = {}
    /\ MeshIdle

SpecScenario == InitScenario /\ [][NextGrouper]_vars

----------------------------------------------------------------------------
(* app.py: mesh_loop, the background loop that finds a Meshtastic device,  *)
(* connects to it and broadcasts lora_status events.  A pass of "while      *)
(* True" is cut where the loop calls out and other greenlets (the socket   *)
(* handlers) can run and see the globals: in SerialInterface() (line 72),  *)
(* at pub.subscribe (line 74), in interface.close() (line 97), and in the  *)
(* sleeps that end the pass.  mesh_pc is "top" between two passes.  No     *)
(* other code assigns interface, current_dev_path or lora_connected.       *)

MaxEmits == 5   \* a pass starts while fewer than MaxEmits events were emitted

ACMPorts == {"/dev/ttyACM0", "/dev/ttyACM1"}
USBPorts == {"/dev/ttyUSB0"}
Ports    == ACMPorts \cup USBPorts

\* scan_for_meshtastic(): found_ports[0] of glob("/dev/ttyACM*") followed by
\* glob("/dev/ttyUSB*"), None when both are empty.  glob returns the matches
\* of one pattern in no specified order: the set of the possible results.
scan_for_meshtastic(devs) ==
    IF devs \cap ACMPorts # {} THEN devs \cap ACMPorts
    ELSE IF devs \cap USBPorts # {} THEN devs \cap USBPorts
    ELSE {None}

ExcConnect   == "Exception: SerialInterface"
ExcSubscribe == "Exception: pub.subscribe"
ExcGone      == "Exception: device path gone"

\* The globals of app.py and the events broadcast so far, as one record.
Globals ==
    [interface |-> interface, current_dev_path |-> current_dev_path,
     lora_connected |-> lora_connected, emitted |-> emitted]

SetGlobals(st) ==
    /\ interface' = st.interface
    /\ current_dev_path' = st.current_dev_path
    /\ lora_connected' = st.lora_connected
    /\ emitted' = st.emitted

\* socketio.emit('lora_status', {'online': v})
Emit(st, v) == [st EXCEPT !.emitted = Append(@, v)]

\* "if lora_connected: lora_connected = False; emit online=False"
\* (lines 65-67, and again lines 104-106).
MarkOffline(st) ==
    IF st.lora_connected
    THEN Emit([st EXCEPT !.lora_connected = FALSE], FALSE)
    ELSE st

\* "lora_connected = True; emit online=True" (lines 79-80 and 91-92).
MarkOnline(st) == Emit([st EXCEPT !.lora_connected = TRUE], TRUE)

\* ExceptHandler emitting online=False whatever lora_connected was.
ExceptHandler_AlwaysEmit(st) ==
    Emit([st EXCEPT !.interface = None, !.current_dev_path = None,
                    !.lora_connected = FALSE], FALSE)

\* The except block after interface.close() (lines 100-109): drop the
\* interface and mark the bridge offline if it was online.
ExceptHandler(st) ==
    MarkOffline([st EXCEPT !.interface = None, !.current_dev_path = None])

\* A pass that finds interface None (lines 63-83): mark offline if needed,
\* scan; with a port found the loop enters SerialInterface(), without one it
\* sleeps and the pass ends.
MeshScan ==
    /\ mesh_pc = "top"
    /\ interface = None
    /\ Len(emitted) < MaxEmits
    /\ SetGlobals(MarkOffline(Globals))
    /\ \E t \in scan_for_meshtastic(devices) :
          /\ target_port' = t
          /\ mesh_pc' = IF t # None THEN "connecting" ELSE "top"
    /\ mesh_exc' = ""
    /\ UNCHANGED <<sent_on_connect, devices, splitVars>>

\* SerialInterface(devPath=target_port) returns (lines 72-73), or raises: the
\* except block then finds interface falsy, closes nothing and ends the pass.
MeshConnect ==
    /\ mesh_pc = "connecting"
    /\ \/ /\ interface' = target_port
          /\ current_dev_path' = target_port
          /\ mesh_pc' = "subscribing"
          /\ UNCHANGED <<lora_connected, emitted, mesh_exc>>
       \/ /\ SetGlobals(ExceptHandler(Globals))
          /\ mesh_exc' = ExcConnect
          /\ mesh_pc' = "top"
    /\ UNCHANGED <<target_port, sent_on_connect, devices, splitVars>>

\* pub.subscribe(onReceive, "meshtastic.receive") returns and the bridge is
\* marked online (lines 74-80), or it raises and the except block starts
\* closing the interface.
MeshSubscribe ==
    /\ mesh_pc = "subscribing"
    /\ \/ /\ SetGlobals(MarkOnline(Globals))
          /\ mesh_pc' = "top"
          /\ UNCHANGED mesh_exc
       \/ /\ mesh_exc' = ExcSubscribe
          /\ mesh_pc' = "closing"
          /\ UNCHANGED <<interface, current_dev_path, lora_connected, emitted>>
    /\ UNCHANGED <<target_port, sent_on_connect, devices, splitVars>>

\* A pass that finds interface set (lines 85-92): the device path is gone
\* and the except block starts closing the interface, or the state is
\* re-synchronised and the pass ends.
MeshCheckDevice ==
    /\ mesh_pc = "top"
    /\ interface # None
    /\ Len(emitted) < MaxEmits
    /\ IF current_dev_path # None /\ current_dev_path \notin devices
       THEN /\ mesh_exc' = ExcGone
            /\ mesh_pc' = "closing"
            /\ UNCHANGED <<interface, current_dev_path, lora_connected, emitted>>
       ELSE /\ SetGlobals(IF ~lora_connected THEN MarkOnline(Globals)
                          ELSE Globals)
            /\ mesh_exc' = ""
            /\ mesh_pc' = "top"
    /\ UNCHANGED <<target_port, sent_on_connect, devices, splitVars>>

\* interface.close() has returned or raised (its exception is swallowed):
\* the rest of the except block, then the sleeps that end the pass.
MeshClose ==
    /\ mesh_pc = "closing"
    /\ SetGlobals(ExceptHandler(Globals))
    /\ mesh_pc' = "top"
    /\ UNCHANGED <<mesh_exc, target_port, sent_on_connect, devices, splitVars>>

\* handle_connect: a new client is sent the current lora_connected (line 129).
HandleConnect ==
    /\ mesh_pc # "not started"
    /\ sent_on_connect' = sent_on_connect \cup {lora_connected}
    /\ UNCHANGED <<interface, current_dev_path, lora_connected, emitted,
                   mesh_exc, mesh_pc, target_port, devices, splitVars>>

\* A device is plugged in: its path appears under /dev.
DeviceAppears ==
    /\ mesh_pc # "not started"
    /\ \E d \in Ports \ devices : devices' = devices \cup {d}
    /\ UNCHANGED <<interface, current_dev_path, lora_connected, emitted,
                   mesh_exc, mesh_pc, target_port, sent_on_connect, splitVars>>

\* A device is unplugged: its path disappears.
DeviceDisappears ==
    /\ mesh_pc # "not started"
    /\ \E d \in devices : devices' = devices \ {d}
    /\ UNCHANGED <<interface, current_dev_path, lora_connected, emitted,
                   mesh_exc, mesh_pc, target_port, sent_on_connect, splitVars>>

\* mesh_loop started by the __main__ block, split_mbtiles.py not running.
InitMesh ==
    /\ srcFile = NoFile
    /\ fs = [p \in AllPaths |-> NoFile]
    /\ limit_bytes = 1
    /\ overhead = <<5, 4>>
    /\ pc = "NotStarted"
    /\ schema = ""
    /\ zooms = <<>>
    /\ zoom_bytes = <<>>
    /\ warnings = {}
    /\ groups = <<>>
    /\ idx = 1
    /\ produced = <<>>
    /\ calls = <<>>
    /\ error = ""
    /\ handles = {}
    /\ interface = None
    /\ current_dev_path = None
    /\ lora_connected = FALSE
    /\ emitted = <<>>
    /\ mesh_exc = ""
    /\ mesh_pc = "top"
    /\ target_port = None
    /\ sent_on_connect = {}
    /\ devices \in SUBSET Ports

NextMesh ==
    \/ MeshScan \/ MeshConnect \/ MeshSubscribe \/ MeshCheckDevice
    \/ MeshClose \/ HandleConnect \/ DeviceAppears \/ DeviceDisappears

SpecMesh == InitMesh /\ [][NextMesh]_vars

----------------------------------------------------------------------------
(* Properties of group_zooms_by_limit (checked under SpecGrouper).         *)

RECURSIVE SumAdjusted(_)
SumAdjusted(g) ==
    IF g = <<>> THEN 0
    ELSE AdjustedEstimate(zoom_bytes, Head(g), overhead) + SumAdjusted(Tail(g))

RECURSIVE SumRawTimesNum(_)
SumRawTimesNum(g) ==
    IF g = <<>> THEN 0
    ELSE DictGet(zoom_bytes, Head(g), 0) * overhead[1] + SumRawTimesNum(Tail(g))

GroupSlots == UNION {{<<g, k>> : k \in 1 .. Len(groups[g])} :
                        g \in 1 .. Len(groups)}

NonNegativeEstimates == \A z \in Range(zooms) : DictGet(zoom_bytes, z, 0) >= 0

Oversized(z) == AdjustedEstimate(zoom_bytes, z, overhead) > limit_bytes

\* C4: the groups returned by group_zooms_by_limit partition the input
\* zoom levels: every input zoom level sits in exactly one slot of exactly
\* one group, and every member of a group is an input zoom level.
C4_GroupsPartitionZooms ==
    pc = "Grouped" =>
        /\ \A z \in Range(zooms) :
              Cardinality({s \in GroupSlots : groups[s[1]][s[2]] = z}) = 1
        /\ \A s \in GroupSlots : groups[s[1]][s[2]] \in Range(zooms)

C4_Witness ==
    /\ pc = "Grouped"
    /\ Len(zooms) >= 3
    /\ Len(groups) >= 2
    /\ \E g \in 1 .. Len(groups) : Len(groups[g]) >= 2

\* C5: every returned group is non-empty and strictly ascending, the
\* groups concatenated in order give back the input sequence, and an empty
\* input gives the empty list.
C5_GroupsConcatenateToZooms ==
    pc = "Grouped" =>
        /\ \A g \in 1 .. Len(groups) :
              /\ groups[g] # <<>>
              /\ \A k \in 1 .. Len(groups[g]) - 1 : groups[g][k] < groups[g][k + 1]
        /\ Flatten(groups) = zooms
        /\ (zooms = <<>> => groups = <<>>)

C5_Witness ==
    /\ pc = "Grouped"
    /\ Len(groups) >= 2
    /\ \E k \in 1 .. Len(zooms) - 1 : zooms[k + 1] > zooms[k] + 1

\* C6: with non-negative estimates, the adjusted estimates of a group sum
\* to at most limit_bytes unless the group is a single zoom level whose own
\* adjusted estimate exceeds limit_bytes.
C6_GroupWithinLimitUnlessSingleton ==
    (pc = "Grouped" /\ NonNegativeEstimates) =>
        \A g \in 1 .. Len(groups) :
            \/ SumAdjusted(groups[g]) <= limit_bytes
            \/ Len(groups[g]) = 1 /\ Oversized(groups[g][1])

C6_Witness ==
    /\ pc = "Grouped"
    /\ NonNegativeEstimates
    /\ \E g \in 1 .. Len(groups) :
          /\ Len(groups[g]) >= 2
          /\ SumAdjusted(groups[g]) = limit_bytes
          /\ SumRawTimesNum(groups[g]) > limit_bytes * overhead[2]
    /\ \E g \in 1 .. Len(groups) :
          Len(groups[g]) = 1 /\ Oversized(groups[g][1])

\* C7: with non-negative estimates, a zoom level whose own adjusted
\* estimate exceeds limit_bytes is the only member of its group, wherever
\* it stands in the input.
C7_OversizedZoomIsAlone ==
    (pc = "Grouped" /\ NonNegativeEstimates) =>
        \A s \in GroupSlots :
            Oversized(groups[s[1]][s[2]]) => Len(groups[s[1]]) = 1

C7_Witness ==
    /\ pc = "Grouped"
    /\ NonNegativeEstimates
    /\ Len(zooms) >= 3
    /\ Oversized(zooms[2])
    /\ ~Oversized(zooms[1])
    /\ ~Oversized(zooms[3])
    /\ groups[2] = <<zooms[2]>>

----------------------------------------------------------------------------
(* Properties of the writers and of the write loop (checked under Spec).   *)
(* calls[k] is the k-th splitter call that has ended; the archive it left  *)
(* is fs[calls[k].path].                                                   *)

Output(k)      == fs[calls[k].path].db
SourceSlice(k, rel) ==
    {r \in srcFile.db[rel].rows : r[1] \in Range(calls[k].zooms)}

CountIn(seq, e) == Cardinality({j \in 1 .. Len(seq) : seq[j] = e})
SameBag(s1, s2) ==
    /\ Len(s1) = Len(s2)
    /\ \A e \in Range(s1) \cup Range(s2) : CountIn(s1, e) = CountIn(s2, e)

MetaValues(db, name) == {r[2] : r \in {q \in Range(db.metadata.rows) : q[1] = name}}

\* C1: once the writer for a group of a Tiles source is over, the tiles
\* relation of the output holds exactly the source rows whose zoom_level is
\* in the group.
C1_OutputTilesEqualSourceSlice ==
    \A k \in 1 .. Len(calls) :
        schema = "tiles" => Output(k).tiles.rows = SourceSlice(k, "tiles")

\* C2: once the writer for a group of a MapImages source is over, the map
\* relation of the output holds exactly the source coordinate rows of the
\* group, and the images relation holds every source image row that one of
\* those coordinate rows references.
C2_OutputMapAndImagesCopied ==
    \A k \in 1 .. Len(calls) :
        schema = "map_images" =>
            /\ Output(k).map.rows = SourceSlice(k, "map")
            /\ {i \in srcFile.db.images.rows :
                   \E m \in SourceSlice(k, "map") : m[4] = i[1]}
               \subseteq Output(k).images.rows

\* C3: once the writer for a group of a MapImages source is over, the
\* output archive has its map and images relations, every tile_id of
\* images is referenced by a map row and every tile_id a map row references
\* is in images.
C3_OutputReferentialIntegrity ==
    \A k \in 1 .. Len(calls) :
        schema = "map_images" =>
            /\ table_exists(Output(k), "map")
            /\ table_exists(Output(k), "images")
            /\ {i[1] : i \in Output(k).images.rows}
                   \subseteq {m[4] : m \in Output(k).map.rows}
            /\ {m[4] : m \in Output(k).map.rows}
                   \subseteq {i[1] : i \in Output(k).images.rows}

\* C8: once the writer for a group is over, the minzoom and maxzoom
\* metadata of the output are the smallest and the largest zoom_level of
\* the output's tile rows (tiles for Tiles, map for MapImages).
C8_MetadataZoomsMatchRows ==
    \A k \in 1 .. Len(calls) :
        LET rel == IF schema = "tiles" THEN "tiles" ELSE "map"
            zs  == {r[1] : r \in Output(k)[rel].rows}
        IN /\ zs # {}
           /\ MetaValues(Output(k), "minzoom") = {Str(MinOf(zs))}
           /\ MetaValues(Output(k), "maxzoom") = {Str(MaxOf(zs))}

\* C9: once the writer for a group is over, the metadata relation of the
\* output is the source's entries other than minzoom and maxzoom, with
\* their multiplicity, plus one minzoom and one maxzoom entry holding the
\* min and max of the group.
C9_MetadataCopiedAndZoomsReplaced ==
    \A k \in 1 .. Len(calls) :
        LET kept == SelectSeq(srcFile.db.metadata.rows,
                              LAMBDA r : r[1] \notin {"minzoom", "maxzoom"})
            want == kept \o << <<"minzoom", Str(ZMin(calls[k].zooms))>>,
                               <<"maxzoom", Str(ZMax(calls[k].zooms))>> >>
        IN /\ table_exists(Output(k), "metadata")
           /\ SameBag(Output(k).metadata.rows, want)

\* C10: when the writer fails for group i, no writer is called for a later
\* group (the failed call is the last one), the run is in Failed with that
\* exception, and the archives written for the groups before i are on disk
\* as they were written.
C10_WriteFailureAbortsLoop ==
    \A k \in 1 .. Len(calls) :
        calls[k].exc # "" =>
            /\ k = Len(calls)
            /\ pc = "Failed"
            /\ error = calls[k].exc
            /\ \A j \in 1 .. k - 1 :
                  calls[j].exc = "" /\ fs[calls[j].path] = calls[j].file

C10_Witness ==
    /\ pc = "Failed"
    /\ calls # <<>>
    /\ calls[Len(calls)].exc # ""
    /\ Len(groups) > calls[Len(calls)].index

----------------------------------------------------------------------------
(* What the caller of main receives when a run fails.                       *)

\* The class of the exception that propagates out of main.  connect_ro and the
\* writers raise sqlite3's own classes; main raises a bare RuntimeError for an
\* unsupported schema (via get_mbtiles_schema_type) and for an empty archive.
ExcType(e) ==
    IF e \in {ErrCantOpen, ErrNestedBegin, ErrVacuumInTx} THEN "OperationalError"
    ELSE IF e = ErrUnique THEN "IntegrityError"
    ELSE IF e \in {ErrUnsupported, ErrNoZooms} THEN "RuntimeError"
    ELSE ""

\* The exception object the caller sees: its class and its args (the message).
\* No raise statement attaches anything else to it.
Raised == [type |-> ExcType(error), args |-> <<error>>]

FailureConditions ==
    {"SourceNotFound", "UnsupportedSchema", "EmptyArchive", "WriteFailure"}

\* The exceptions each failure condition can surface as.
ErrorsOf(cond) ==
    CASE cond = "SourceNotFound"    -> {ErrCantOpen}
      [] cond = "UnsupportedSchema" -> {ErrUnsupported}
      [] cond = "EmptyArchive"      -> {ErrNoZooms}
      [] cond = "WriteFailure"      -> {ErrNestedBegin, ErrUnique, ErrVacuumInTx}

\* The condition a failed run is in, from where main stopped.
FailureCondition ==
    IF calls # <<>> THEN "WriteFailure"
    ELSE IF ~srcFile.exists THEN "SourceNotFound"
    ELSE IF schema = "" THEN "UnsupportedSchema"
    ELSE "EmptyArchive"

\* The failure conditions that reach the caller under exception class t.
ConditionsReportedAs(t) ==
    {cond \in FailureConditions : \E e \in ErrorsOf(cond) : ExcType(e) = t}

\* C11: each unrecoverable failure reaches the caller as its own named
\* condition: the exception class of a failed run is raised by no other failure
\* condition, and the exception of a write failure names the group that failed.
C11_FailuresAreDistinctNamedConditions ==
    pc = "Failed" =>
        /\ ConditionsReportedAs(Raised.type) = {FailureCondition}
        /\ FailureCondition = "WriteFailure" => "group" \in DOMAIN Raised

----------------------------------------------------------------------------
\* C12: a source of a supported schema with no zoom level fails with "No zoom
\* levels found" in the step that leaves SchemaDetected; that step changes no
\* output file, and a run that failed this way has computed no group, called
\* no splitter and still has the output directory it started with.
C12_EmptyArchiveFailsBeforeGrouping ==
    /\ [][(pc = "SchemaDetected" /\ get_zoom_levels(srcFile.db, schema) = <<>>)
            => /\ pc' = "Failed"
               /\ error' = ErrNoZooms
               /\ fs' = fs
               /\ groups' = groups
               /\ calls' = calls]_vars
    /\ [](error = ErrNoZooms =>
            /\ pc = "Failed"
            /\ groups = <<>>
            /\ calls = <<>>
            /\ produced = <<>>
            /\ fs \in OutDirs)

\* An empty archive was rejected while stale files sat in the output directory.
C12_Witness ==
    /\ pc = "Failed"
    /\ error = ErrNoZooms
    /\ schema \in {"tiles", "map_images"}
    /\ \E p \in DOMAIN fs : fs[p].exists

----------------------------------------------------------------------------
\* flag = "OK" if size <= limit_bytes else "OVER" (the "Done" listing of main).
Flag(size) == IF size <= limit_bytes THEN "OK" ELSE "OVER"

\* C13: for every group written, the splitter returns the measured size
\* whatever the limit (the call does not fail and main records the result
\* <<path, size, zmin, zmax>> of that group), and the result is flagged OVER
\* exactly when the measured size is strictly greater than limit_bytes.
C13_WriterReturnsSizeAndFlagsOverrun ==
    \A k \in 1 .. Len(calls) :
        /\ calls[k].exc = ""
        /\ k <= Len(produced)
        /\ produced[k][1] = calls[k].path
        /\ produced[k][2] >= 0
        /\ (Flag(produced[k][2]) = "OVER") <=> (produced[k][2] > limit_bytes)

----------------------------------------------------------------------------
\* C14: the step that leaves SizesEstimated emits a warning for exactly the
\* zoom levels whose adjusted estimate alone exceeds limit_bytes and is never
\* a failure; the grouper runs only after that step; and whatever was warned,
\* the run is then at the grouper, the grouper returns all the zoom levels,
\* and the writer loop starts at the first group (idx = 1 <= Len(groups), the
\* guard of WriteGroup).
C14_WarningsExactAndNonBlocking ==
    /\ [][pc = "SizesEstimated"
            => /\ warnings' = {z \in Range(zooms) : Oversized(z)}
               /\ pc' = "Warned"
               /\ groups' = <<>>
               /\ error' = ""]_vars
    /\ [][groups' # groups => pc = "Warned" /\ warnings' = warnings]_vars
    /\ [](pc \in {"Warned", "Grouped"} => error = "")
    /\ [](pc = "Grouped" =>
            /\ warnings = {z \in Range(zooms) : Oversized(z)}
            /\ Flatten(groups) = zooms
            /\ idx = 1 /\ idx <= Len(groups))
    /\ [](calls # <<>> => calls[1].zooms = groups[1])

\* A run that warned about a zoom level went on to group and to call the
\* splitter.
C14_Witness ==
    /\ warnings # {}
    /\ warnings # Range(zooms)
    /\ Len(groups) >= 2
    /\ calls # <<>>

----------------------------------------------------------------------------
\* The rows a file of an earlier run holds, per relation.
StaleRows(rel) ==
    IF rel = "metadata" THEN Range(StaleDb.metadata.rows) ELSE StaleDb[rel].rows

RowsOf(db, rel) ==
    IF rel = "metadata" THEN Range(db.metadata.rows) ELSE db[rel].rows

\* C15: every splitter call is handed an output path at which no file exists
\* (calls[k].dst is the file at the path when the splitter is entered), and
\* the archive the call leaves holds no row of any relation, metadata
\* included, of a file that was at the path before the run.
C15_OutputPathClearedBeforeWriter ==
    \A k \in 1 .. Len(calls) :
        /\ calls[k].path = OutPath(ZMin(calls[k].zooms), ZMax(calls[k].zooms))
        /\ ~calls[k].dst.exists
        /\ \A rel \in {"metadata", "tiles", "map", "images"} :
              RowsOf(calls[k].file.db, rel) \cap StaleRows(rel) = {}

\* The splitter was called for a path where an earlier run had left a file:
\* the other paths of the directory still hold theirs.
C15_Witness ==
    /\ calls # <<>>
    /\ calls[1].file.exists
    /\ \E p \in DOMAIN fs : p # calls[1].path /\ fs[p] = FileOf(StaleDb)

----------------------------------------------------------------------------
\* C16: for zoom levels 0..3 with estimates {0:1000, 1:2000, 2:50000000,
\* 3:200}, overhead 1.25 and a limit of 10000000 bytes, zoom level 2 is the
\* only one warned about, the warning comes before any group exists, and the
\* grouper returns exactly [0,1], [2], [3] in this order.
C16_ScenarioGroups ==
    (/\ zooms = ScenarioZooms
     /\ zoom_bytes = ScenarioEstimates
     /\ limit_bytes = 10000000
     /\ overhead = <<5, 4>>)
    => /\ pc = "SizesEstimated" => warnings = {} /\ groups = <<>>
       /\ pc = "Warned" => warnings = {2} /\ groups = <<>>
       /\ pc = "Grouped" =>
             warnings = {2} /\ groups = <<<<0, 1>>, <<2>>, <<3>>>>

\* The grouper has returned on the estimates of the scenario.
C16_Witness ==
    /\ pc = "Grouped"
    /\ zoom_bytes = ScenarioEstimates
    /\ limit_bytes = 10000000
    /\ Len(groups) = 3
    /\ SumAdjusted(groups[1]) = 3750
    /\ SumAdjusted(groups[2]) = 62500000
    /\ SumAdjusted(groups[3]) = 250

----------------------------------------------------------------------------
\* C17: the grouping is greedy: for every two consecutive groups G and G',
\* the adjusted estimates of G plus the adjusted estimate of the first zoom
\* level of G' add up to strictly more than limit_bytes.
C17_GroupClosedOnlyWhenNextDoesNotFit ==
    pc = "Grouped" =>
        \A g \in 1 .. Len(groups) - 1 :
            SumAdjusted(groups[g])
                + AdjustedEstimate(zoom_bytes, groups[g + 1][1], overhead)
            > limit_bytes

\* A group of two zoom levels was closed by a zoom level that exceeded the
\* limit by exactly one byte.
C17_Witness ==
    /\ pc = "Grouped"
    /\ \E g \in 1 .. Len(groups) - 1 :
          /\ Len(groups[g]) >= 2
          /\ SumAdjusted(groups[g]) <= limit_bytes
          /\ SumAdjusted(groups[g])
                + AdjustedEstimate(zoom_bytes, groups[g + 1][1], overhead)
             = limit_bytes + 1

----------------------------------------------------------------------------
\* C18: a run on a readable source of a supported schema with zoom levels
\* goes Init, SchemaDetected, SizesEstimated, Grouped, WritingGroup(1..n),
\* Done: the splitter is called once per group in group order (the k-th call
\* is for groups[k], and it has ended before the next one starts), and when
\* the run has ended it is Done with one result per group, in group order.
C18_RunWritesEveryGroupInOrder ==
    /\ \A k \in 1 .. Len(calls) :
          calls[k].index = k /\ k <= Len(groups) /\ calls[k].zooms = groups[k]
    /\ (pc \in {"Done", "Failed"} /\ srcFile.exists /\ schema # "" /\ zooms # <<>>)
          => /\ pc = "Done"
             /\ Len(calls) = Len(groups)
             /\ Len(produced) = Len(groups)
             /\ \A k \in 1 .. Len(groups) :
                   /\ produced[k][1] = calls[k].path
                   /\ produced[k][3] = ZMin(groups[k])
                   /\ produced[k][4] = ZMax(groups[k])

----------------------------------------------------------------------------
\* The rows of zoom level z carry no data: every tile_data they hold or
\* reference is NULL, or (map + images) the tile_id they reference has no row
\* in images.
NoData(db, sch, z) ==
    IF sch = "tiles"
    THEN \A r \in db.tiles.rows : r[1] = z => r[4].null
    ELSE \A m \in db.map.rows : m[1] = z =>
             \A i \in db.images.rows : i[1] = m[4] => i[2].null

\* C19: for a source of either schema, every zoom level get_zoom_levels
\* returns is a key of the mapping estimate_zoom_sizes_bytes returns, with
\* value 0 when the rows of the zoom level carry no data.
C19_EveryZoomLevelHasAnEstimate ==
    (pc \in {"SizesEstimated", "Warned", "Grouped", "WritingGroup", "Done"}
        /\ srcFile.exists)
    => \A z \in Range(get_zoom_levels(srcFile.db, schema)) :
          /\ z \in DOMAIN estimate_zoom_sizes_bytes(srcFile.db, schema)
          /\ NoData(srcFile.db, schema, z)
                => estimate_zoom_sizes_bytes(srcFile.db, schema)[z] = 0

----------------------------------------------------------------------------
\* C20: when a run has ended, in Done or in Failed, no database connection
\* is open; main's source connection is closed before the first splitter
\* call; the connections of a splitter call are closed once the call has
\* returned or raised; and at most one destination connection is open at
\* any time.
C20_AllHandlesClosedAtEnd ==
    /\ pc \in {"Done", "Failed"} => handles = {}
    /\ pc \in {"Grouped", "WritingGroup"} \/ calls # <<>>
          => <<0, "src">> \notin handles
    /\ \A k \in 1 .. Len(calls) :
          <<k, "src">> \notin handles /\ <<k, "dst">> \notin handles
    /\ Cardinality({h \in handles : h[2] = "dst"}) <= 1

----------------------------------------------------------------------------
\* The output path main computes for the g-th group.
GroupPath(g) == OutPath(ZMin(groups[g]), ZMax(groups[g]))

\* C21: within a run the groups have pairwise distinct (min, max) zoom pairs
\* and so pairwise distinct output paths, and the delete-and-write of one
\* group changes the file at the path of that group only, never the file at
\* the path of another group of the run.
C21_GroupPathsDistinct ==
    /\ [](\A g, h \in 1 .. Len(groups) :
            g # h => /\ <<ZMin(groups[g]), ZMax(groups[g])>>
                          # <<ZMin(groups[h]), ZMax(groups[h])>>
                     /\ GroupPath(g) # GroupPath(h))
    /\ [][\A p \in DOMAIN fs :
            fs'[p] # fs[p]
                => /\ idx <= Len(groups)
                   /\ p = GroupPath(idx)
                   /\ \A h \in 1 .. Len(groups) : h # idx => p # GroupPath(h)]_vars

\* The splitter was called for the first of several groups while files sat
\* at the paths of the other groups: those files are as they were.
C21_Witness ==
    /\ Len(groups) >= 2
    /\ calls # <<>>
    /\ fs[GroupPath(1)] = calls[1].file
    /\ fs[GroupPath(1)] # FileOf(StaleDb)
    /\ \A h \in 2 .. Len(groups) : fs[GroupPath(h)] = FileOf(StaleDb)

----------------------------------------------------------------------------
\* C22: whatever devices appear and disappear and whatever connection
\* attempts fail, the lora_status events mesh_loop broadcasts alternate
\* strictly, online=True first (the i-th event is True exactly for odd i),
\* and at the end of every pass of the loop lora_connected is True exactly
\* when interface is not None.
C22_StatusAlternatesAndMatchesInterface ==
    /\ \A i \in 1 .. Len(emitted) : emitted[i] = (i % 2 = 1)
    /\ mesh_pc = "top" => (lora_connected <=> (interface # None))

\* The bridge went online, lost its device, went offline, and a later
\* connection attempt to a device that is present failed.
C22_Witness ==
    /\ mesh_pc = "top"
    /\ Len(emitted) >= 2
    /\ mesh_exc = ExcConnect
    /\ devices # {}
    /\ ~lora_connected

====
